---- MODULE Spec2Model ----
(***************************************************************************)
(* Model of pyHS100/smartstrip.py: the SmartStrip controller, which owns   *)
(* one SmartPlug per outlet of a multi-outlet device and answers strip     *)
(* level questions by calling every plug in turn.                          *)
(*                                                                         *)
(* Every coroutine is cut at its await points: the "start" action of an    *)
(* operation runs the code up to the first await, the "resume" action runs *)
(* from the return (or failure) of the awaited call up to the next await   *)
(* or to the end of the coroutine.  What an awaited call returns is an     *)
(* input of the resume action, except the relay state, which the device    *)
(* holds (variable relay).                                                 *)
(*                                                                         *)
(* Energy and power values are integers here (whole units); the rounding   *)
(* of floating point addition is not modelled.                             *)
(***************************************************************************)
EXTENDS Integers, Sequences, FiniteSets, TLC

\* ---- bounds of the model ------------------------------------------------
MaxOutlets == 3      \* most children an inventory lists
MaxId == 2           \* child identifiers are 1..MaxId in SpecInventory
MaxTime == 3         \* on-since timestamps are 1..MaxTime
MaxPower == 2        \* per-outlet consumption is 0..MaxPower
MaxVal == 1          \* a history entry is 1..MaxVal

\* period keys (day of month, month) that a history map may carry
PeriodKeys == {1, 2}

\* failures an awaited device call can end with
FailureKinds == {"SmartDeviceException", "ConnectionError"}

\* every history map an outlet may return: a partial map from keys to values
HistoryMaps == UNION {[S -> 1..MaxVal] : S \in SUBSET PeriodKeys}

EmptyMap == [k \in {} |-> 0]

VARIABLES
    sysinfo,       \* the device's answer to get_sys_info
    relay,         \* the device's relay state, per child position
    phase,         \* "new", "querying", "ready", "failed": construction
    plugs,         \* self.plugs
    num_children,  \* self.num_children
    op,            \* the strip operation running or last run
    pc,            \* "idle", "await" (suspended in an await), "done"
    idx,           \* position in self.plugs of the plug the loop is at
    acc,           \* the local the loop accumulates into
    calls,         \* per-outlet calls issued by the operation, in order
    cmds,          \* whole-device requests issued by the operation, in order
    result         \* what the operation returned or raised

vars == <<sysinfo, relay, phase, plugs, num_children, op, pc, idx, acc,
          calls, cmds, result>>

device == <<sysinfo, relay>>
strip == <<phase, plugs, num_children>>

NoResult == [kind |-> "none"]
Value(v) == [kind |-> "value", val |-> v]
Error(e) == [kind |-> "error", val |-> e]
None == "None"

\* ---- the call logs ------------------------------------------------------
\* a per-outlet call that was issued and has not returned yet
IssueCall(log, i, name) ==
    Append(log, [plug |-> i, name |-> name, st |-> "pending"])

\* the pending call (the last one of the log) returns v or fails with v
Complete(log, st, v) ==
    [log EXCEPT ![Len(log)] =
        [plug |-> @.plug, name |-> @.name, st |-> st, val |-> v]]

\* a request to the whole-device endpoint (no child context)
IssueCmd(log, cmd, arg) == Append(log, [cmd |-> cmd, arg |-> arg])

\* ---- the device ---------------------------------------------------------
\* the child position a context identifier routes to
OutletOf(context) ==
    CHOOSE i \in 1..Len(sysinfo.children) : sysinfo.children[i] = context

\* what is_on answers for the plug bound to context
DeviceIsOn(context) == relay[OutletOf(context)]

\* ---- construction: SmartStrip.__init__ ----------------------------------
\* variant of AppendPlugs: the children are taken from the end of the list
RECURSIVE AppendPlugsReversed(_, _, _, _)
AppendPlugsReversed(list, children, plug, n) ==
    IF plug > n THEN list
    ELSE AppendPlugsReversed(
             Append(list, [context |-> children[n + 1 - plug]]),
             children, plug + 1, n)

\* the loop that appends one SmartPlug per child descriptor
RECURSIVE AppendPlugs(_, _, _, _)
AppendPlugs(list, children, plug, n) ==
    IF plug > n THEN list
    ELSE AppendPlugs(Append(list, [context |-> children[plug]]),
                     children, plug + 1, n)

\* __init__ up to the get_sys_info round trip
InitQuery ==
    /\ phase = "new"
    /\ phase' = "querying"
    /\ plugs' = <<>>
    /\ cmds' = IssueCmd(cmds, "get_sysinfo", None)
    /\ pc' = "await"
    /\ op' = "__init__"
    /\ UNCHANGED <<device, num_children, idx, acc, calls, result>>

\* variant of InitQueryFails: the failed inventory query is sent once more
\* before __init__ gives up
InitQueryFailsRetry ==
    /\ phase = "querying"
    /\ IF Len(cmds) < 2
       THEN /\ cmds' = IssueCmd(cmds, "get_sysinfo", None)
            /\ UNCHANGED <<phase, pc, result>>
       ELSE /\ \E e \in FailureKinds :
                result' = Error(e)
            /\ phase' = "failed"
            /\ pc' = "done"
            /\ UNCHANGED cmds
    /\ UNCHANGED <<device, plugs, num_children, op, idx, acc, calls>>

\* the inventory query failed: __init__ raises
InitQueryFails ==
    /\ phase = "querying"
    /\ \E e \in FailureKinds :
        /\ result' = Error(e)
    /\ phase' = "failed"
    /\ pc' = "done"
    /\ UNCHANGED <<device, plugs, num_children, op, idx, acc, calls, cmds>>

\* variant of InitQueryReturns: a response without "children" is read as an
\* empty list of children
InitQueryReturnsDefault ==
    /\ phase = "querying"
    /\ num_children' = Len(sysinfo.children)
    /\ plugs' = AppendPlugs(plugs, sysinfo.children, 1,
                            Len(sysinfo.children))
    /\ phase' = "ready"
    /\ result' = Value(None)
    /\ pc' = "done"
    /\ UNCHANGED <<device, op, idx, acc, calls, cmds>>

\* the inventory query answered: the rest of __init__
InitQueryReturns ==
    /\ phase = "querying"
    /\ IF ~sysinfo.has_children
       THEN /\ result' = Error("KeyError")
            /\ phase' = "failed"
            /\ UNCHANGED <<plugs, num_children>>
       ELSE /\ num_children' = Len(sysinfo.children)
            /\ plugs' = AppendPlugs(plugs, sysinfo.children, 1,
                                    Len(sysinfo.children))
            /\ phase' = "ready"
            /\ result' = Value(None)
    /\ pc' = "done"
    /\ UNCHANGED <<device, op, idx, acc, calls, cmds>>

\* ---- starting and ending an operation -----------------------------------
CanStart == phase = "ready" /\ pc # "await"

Finish(r) == pc' = "done" /\ result' = r

\* the plug the pending call was issued to
Cur == plugs[idx]


\* the for loop moves on from plug idx: the next plug's call is issued, or
\* the loop is over and the coroutine returns r
NextPlug(log, name, r) ==
    IF idx < Len(plugs)
    THEN /\ idx' = idx + 1
         /\ calls' = IssueCall(log, idx + 1, name)
         /\ UNCHANGED <<pc, result>>
    ELSE /\ calls' = log
         /\ UNCHANGED idx
         /\ Finish(r)

\* variant of FirstPlug: the calls to all plugs are started together
FirstPlugGather(name, r) ==
    IF plugs = <<>>
    THEN /\ idx' = 0
         /\ calls' = <<>>
         /\ Finish(r)
    ELSE /\ idx' = Len(plugs)
         /\ calls' = [i \in 1..Len(plugs) |->
                         [plug |-> i, name |-> name, st |-> "pending"]]
         /\ pc' = "await"
         /\ result' = NoResult

\* an operation begins its loop over self.plugs: with no plug the loop body
\* never runs and the coroutine returns r at once
FirstPlug(name, r) ==
    IF plugs = <<>>
    THEN /\ idx' = 0
         /\ calls' = <<>>
         /\ Finish(r)
    ELSE /\ idx' = 1
         /\ calls' = IssueCall(<<>>, 1, name)
         /\ pc' = "await"
         /\ result' = NoResult

Awaiting(name) ==
    /\ phase = "ready"
    /\ op = name
    /\ pc = "await"

AwaitingCall(name, call) ==
    /\ Awaiting(name)
    /\ calls # <<>>
    /\ calls[Len(calls)].st = "pending"
    /\ calls[Len(calls)].name = call

\* ---- failures -----------------------------------------------------------
\* variant of plug_call_raises: the exception is caught and the operation
\* returns None
plug_call_raises_swallowed ==
    /\ phase = "ready"
    /\ pc = "await"
    /\ calls # <<>>
    /\ calls[Len(calls)].st = "pending"
    /\ \E e \in FailureKinds :
        /\ calls' = Complete(calls, "err", e)
        /\ Finish(Value(None))
    /\ UNCHANGED <<device, strip, op, idx, acc, cmds>>

\* variant of plug_call_raises: the plug whose call failed is removed from
\* self.plugs
plug_call_raises_drops_plug ==
    /\ phase = "ready"
    /\ pc = "await"
    /\ calls # <<>>
    /\ calls[Len(calls)].st = "pending"
    /\ \E e \in FailureKinds :
        /\ calls' = Complete(calls, "err", e)
        /\ Finish(Error(e))
    /\ plugs' = [i \in 1..(Len(plugs) - 1) |->
                    IF i < idx THEN plugs[i] ELSE plugs[i + 1]]
    /\ UNCHANGED <<device, phase, num_children, op, idx, acc, cmds>>

\* an awaited per-outlet call raises: no operation has a try block, so the
\* exception leaves the coroutine as it is
plug_call_raises ==
    /\ phase = "ready"
    /\ pc = "await"
    /\ calls # <<>>
    /\ calls[Len(calls)].st = "pending"
    /\ \E e \in FailureKinds :
        /\ calls' = Complete(calls, "err", e)
        /\ Finish(Error(e))
    /\ UNCHANGED <<device, strip, op, idx, acc, cmds>>

\* an awaited whole-device request of a strip operation raises
query_helper_raises ==
    /\ phase = "ready"
    /\ pc = "await"
    /\ calls = <<>>
    /\ cmds # <<>>
    /\ \E e \in FailureKinds :
        Finish(Error(e))
    /\ UNCHANGED <<device, strip, op, idx, acc, calls, cmds>>

\* ---- is_on --------------------------------------------------------------
is_on ==
    /\ CanStart
    /\ op' = "is_on"
    /\ cmds' = <<>>
    /\ acc' = <<>>
    /\ FirstPlug("is_on", Value(FALSE))
    /\ UNCHANGED <<device, strip>>

\* variant of is_on_resume: the loop returns on the first outlet that is off
is_on_resume_all ==
    /\ AwaitingCall("is_on", "is_on")
    /\ LET v == DeviceIsOn(Cur.context)
           log == Complete(calls, "ok", v)
       IN  IF ~v
           THEN /\ calls' = log
                /\ UNCHANGED idx
                /\ Finish(Value(FALSE))
           ELSE NextPlug(log, "is_on", Value(TRUE))
    /\ UNCHANGED <<device, strip, op, acc, cmds>>

\* variant of is_on_resume: the loop asks every plug and returns the OR
is_on_resume_every_plug ==
    /\ AwaitingCall("is_on", "is_on")
    /\ LET v == DeviceIsOn(Cur.context)
           any == v \/ acc = <<TRUE>>
       IN  /\ acc' = (IF any THEN <<TRUE>> ELSE <<>>)
           /\ NextPlug(Complete(calls, "ok", v), "is_on", Value(any))
    /\ UNCHANGED <<device, strip, op, cmds>>

is_on_resume ==
    /\ AwaitingCall("is_on", "is_on")
    /\ LET v == DeviceIsOn(Cur.context)
           log == Complete(calls, "ok", v)
       IN  IF v
           THEN /\ calls' = log
                /\ UNCHANGED idx
                /\ Finish(Value(TRUE))
           ELSE NextPlug(log, "is_on", Value(FALSE))
    /\ UNCHANGED <<device, strip, op, acc, cmds>>

\* ---- turn_on, turn_off --------------------------------------------------
\* what the firmware does with a whole-device relay command
SetAllRelays(state) == [i \in DOMAIN relay |-> state = 1]

turn_on ==
    /\ CanStart
    /\ op' = "turn_on"
    /\ cmds' = IssueCmd(<<>>, "set_relay_state", 1)
    /\ calls' = <<>>
    /\ acc' = <<>>
    /\ idx' = 0
    /\ pc' = "await"
    /\ result' = NoResult
    /\ UNCHANGED <<device, strip>>

turn_on_resume ==
    /\ Awaiting("turn_on")
    /\ relay' = SetAllRelays(cmds[Len(cmds)].arg)
    /\ Finish(Value(None))
    /\ UNCHANGED <<sysinfo, strip, op, idx, acc, calls, cmds>>

\* variant of turn_off: the request carries state 1
turn_off_state_1 ==
    /\ CanStart
    /\ op' = "turn_off"
    /\ cmds' = IssueCmd(<<>>, "set_relay_state", 1)
    /\ calls' = <<>>
    /\ acc' = <<>>
    /\ idx' = 0
    /\ pc' = "await"
    /\ result' = NoResult
    /\ UNCHANGED <<device, strip>>

turn_off ==
    /\ CanStart
    /\ op' = "turn_off"
    /\ cmds' = IssueCmd(<<>>, "set_relay_state", 0)
    /\ calls' = <<>>
    /\ acc' = <<>>
    /\ idx' = 0
    /\ pc' = "await"
    /\ result' = NoResult
    /\ UNCHANGED <<device, strip>>

turn_off_resume ==
    /\ Awaiting("turn_off")
    /\ relay' = SetAllRelays(cmds[Len(cmds)].arg)
    /\ Finish(Value(None))
    /\ UNCHANGED <<sysinfo, strip, op, idx, acc, calls, cmds>>

\* ---- get_on_since -------------------------------------------------------
\* Python's max over a non-empty list
RECURSIVE MaxFrom(_, _, _)
MaxFrom(list, i, best) ==
    IF i > Len(list) THEN best
    ELSE MaxFrom(list, i + 1, IF list[i] > best THEN list[i] ELSE best)

\* variant of max: the smallest element
max_smallest(list) ==
    CHOOSE t \in {list[i] : i \in 1..Len(list)} :
        \A i \in 1..Len(list) : t <= list[i]

\* variant of max: the last element
max_last(list) == list[Len(list)]

max(list) == MaxFrom(list, 2, list[1])

\* variant of get_on_since: max is given a default, so an empty list gives
\* None
get_on_since_default ==
    /\ CanStart
    /\ op' = "get_on_since"
    /\ cmds' = <<>>
    /\ acc' = <<>>
    /\ FirstPlug("get_on_since", Value(None))
    /\ UNCHANGED <<device, strip>>

get_on_since ==
    /\ CanStart
    /\ op' = "get_on_since"
    /\ cmds' = <<>>
    /\ acc' = <<>>
    /\ FirstPlug("get_on_since", Error("ValueError"))
    /\ UNCHANGED <<device, strip>>

get_on_since_resume ==
    /\ AwaitingCall("get_on_since", "get_on_since")
    /\ \E t \in 1..MaxTime :
        LET list == Append(acc, t)
        IN  /\ acc' = list
            /\ NextPlug(Complete(calls, "ok", t), "get_on_since",
                        Value(max(list)))
    /\ UNCHANGED <<device, strip, op, cmds>>

\* ---- current_consumption ------------------------------------------------
\* Python's sum over a list, starting from 0
RECURSIVE SumFrom(_, _, _)
SumFrom(list, i, total) ==
    IF i > Len(list) THEN total
    ELSE SumFrom(list, i + 1, total + list[i])

\* variant of sum: the first element is left out
sum_from_second(list) == SumFrom(list, 2, 0)

sum(list) == SumFrom(list, 1, 0)

current_consumption ==
    /\ CanStart
    /\ op' = "current_consumption"
    /\ cmds' = <<>>
    /\ acc' = <<>>
    /\ FirstPlug("current_consumption", Value(sum(<<>>)))
    /\ UNCHANGED <<device, strip>>

current_consumption_resume ==
    /\ AwaitingCall("current_consumption", "current_consumption")
    /\ \E w \in 0..MaxPower :
        LET list == Append(acc, w)
        IN  /\ acc' = list
            /\ NextPlug(Complete(calls, "ok", w), "current_consumption",
                        Value(sum(list)))
    /\ UNCHANGED <<device, strip, op, cmds>>

\* ---- icon ---------------------------------------------------------------
\* variant of icon: the icon is asked of the device
icon_queried ==
    /\ CanStart
    /\ op' = "icon"
    /\ cmds' = IssueCmd(<<>>, "get_dev_icon", None)
    /\ calls' = <<>>
    /\ acc' = <<>>
    /\ idx' = 0
    /\ pc' = "await"
    /\ result' = NoResult
    /\ UNCHANGED <<device, strip>>

icon ==
    /\ CanStart
    /\ op' = "icon"
    /\ cmds' = <<>>
    /\ calls' = <<>>
    /\ acc' = <<>>
    /\ idx' = 0
    /\ Finish(Value([icon |-> "SMARTSTRIP-DUMMY", hash |-> "SMARTSTRIP-DUMMY"]))
    /\ UNCHANGED <<device, strip>>

\* ---- set_alias ----------------------------------------------------------
Aliases == {"strip", "desk"}

set_alias ==
    /\ CanStart
    /\ op' = "set_alias"
    /\ \E alias \in Aliases :
        cmds' = IssueCmd(<<>>, "set_dev_alias", alias)
    /\ calls' = <<>>
    /\ acc' = <<>>
    /\ idx' = 0
    /\ pc' = "await"
    /\ result' = NoResult
    /\ UNCHANGED <<device, strip>>

set_alias_resume ==
    /\ Awaiting("set_alias")
    /\ Finish(Value(None))
    /\ UNCHANGED <<device, strip, op, idx, acc, calls, cmds>>


\* ---- get_emeter_daily ---------------------------------------------------
\* a defaultdict(lambda: 0.0) read
Get(d, k) == IF k \in DOMAIN d THEN d[k] ELSE 0

\* d[k] = v on a dict
Put(d, k, v) == [x \in DOMAIN d \cup {k} |-> IF x = k THEN v ELSE d[x]]

\* variant of AddItems: total[day] = value
RECURSIVE AddItemsOverwrite(_, _, _)
AddItemsOverwrite(total, items, keys) ==
    IF keys = {} THEN total
    ELSE LET day == CHOOSE k \in keys : \A j \in keys : k <= j
             value == items[day]
         IN  AddItemsOverwrite(Put(total, day, value), items, keys \ {day})

\* for day, value in items: total[day] += value
RECURSIVE AddItems(_, _, _)
AddItems(total, items, keys) ==
    IF keys = {} THEN total
    ELSE LET day == CHOOSE k \in keys : \A j \in keys : k <= j
             value == items[day]
         IN  AddItems(Put(total, day, Get(total, day) + value), items,
                      keys \ {day})

get_emeter_daily ==
    /\ CanStart
    /\ op' = "get_emeter_daily"
    /\ cmds' = <<>>
    /\ acc' = EmptyMap
    /\ FirstPlug("get_emeter_daily", Value(EmptyMap))
    /\ UNCHANGED <<device, strip>>

get_emeter_daily_resume ==
    /\ AwaitingCall("get_emeter_daily", "get_emeter_daily")
    /\ \E plug_emeter_daily \in HistoryMaps :
        LET emeter_daily ==
                AddItems(acc, plug_emeter_daily, DOMAIN plug_emeter_daily)
        IN  /\ acc' = emeter_daily
            /\ NextPlug(Complete(calls, "ok", plug_emeter_daily),
                        "get_emeter_daily", Value(emeter_daily))
    /\ UNCHANGED <<device, strip, op, cmds>>

\* ---- get_emeter_monthly -------------------------------------------------
\* "for month, value in plug_emeter_monthly" iterates the keys of the dict;
\* the first key, an int, cannot be unpacked into two names: TypeError
\* variant of get_emeter_monthly: the loop awaits erase_emeter_stats
get_emeter_monthly_erasing ==
    /\ CanStart
    /\ op' = "get_emeter_monthly"
    /\ cmds' = <<>>
    /\ acc' = EmptyMap
    /\ FirstPlug("erase_emeter_stats", Value(EmptyMap))
    /\ UNCHANGED <<device, strip>>

get_emeter_monthly ==
    /\ CanStart
    /\ op' = "get_emeter_monthly"
    /\ cmds' = <<>>
    /\ acc' = EmptyMap
    /\ FirstPlug("get_emeter_monthly", Value(EmptyMap))
    /\ UNCHANGED <<device, strip>>

get_emeter_monthly_resume ==
    /\ AwaitingCall("get_emeter_monthly", "get_emeter_monthly")
    /\ \E plug_emeter_monthly \in HistoryMaps :
        LET log == Complete(calls, "ok", plug_emeter_monthly)
        IN  IF DOMAIN plug_emeter_monthly # {}
            THEN /\ calls' = log
                 /\ UNCHANGED idx
                 /\ Finish(Error("TypeError"))
            ELSE NextPlug(log, "get_emeter_monthly", Value(acc))
    /\ UNCHANGED <<device, strip, op, acc, cmds>>

\* ---- erase_emeter_stats -------------------------------------------------
erase_emeter_stats ==
    /\ CanStart
    /\ op' = "erase_emeter_stats"
    /\ cmds' = <<>>
    /\ acc' = <<>>
    /\ FirstPlug("erase_emeter_stats", Value(None))
    /\ UNCHANGED <<device, strip>>

\* variant of erase_emeter_stats_resume: the coroutine returns after the
\* first plug
erase_emeter_stats_resume_first ==
    /\ AwaitingCall("erase_emeter_stats", "erase_emeter_stats")
    /\ calls' = Complete(calls, "ok", None)
    /\ Finish(Value(None))
    /\ UNCHANGED <<device, strip, op, idx, acc, cmds>>

erase_emeter_stats_resume ==
    /\ AwaitingCall("erase_emeter_stats", "erase_emeter_stats")
    /\ NextPlug(Complete(calls, "ok", None), "erase_emeter_stats",
                Value(None))
    /\ UNCHANGED <<device, strip, op, acc, cmds>>

\* ---- state_information --------------------------------------------------
\* str(plug): one string per outlet identifier
PlugStr(plug) == plug.context

LedKey == [text |-> "LED state", plug |-> 0]
OnSinceKey(plug) == [text |-> "Plug %s on since", plug |-> PlugStr(plug)]

\* state[key] = value on a dict that keeps insertion order: a key already
\* present keeps its place and takes the new value
DictSet(state, key, value) ==
    IF \E i \in 1..Len(state) : state[i].key = key
    THEN [i \in 1..Len(state) |->
            IF state[i].key = key THEN [key |-> key, val |-> value]
            ELSE state[i]]
    ELSE Append(state, [key |-> key, val |-> value])

state_information ==
    /\ CanStart
    /\ op' = "state_information"
    /\ cmds' = <<>>
    /\ \E led \in BOOLEAN :
        LET state == DictSet(<<>>, LedKey, led)
        IN  /\ acc' = state
            /\ FirstPlug("is_on", Value(state))
    /\ UNCHANGED <<device, strip>>

\* variant of state_information_is_on: get_on_since is awaited on every plug
state_information_is_on_unconditional ==
    /\ AwaitingCall("state_information", "is_on")
    /\ calls' = IssueCall(Complete(calls, "ok", DeviceIsOn(Cur.context)),
                          idx, "get_on_since")
    /\ UNCHANGED <<device, strip, op, idx, pc, result, acc, cmds>>

\* plug.is_on() answered: get_on_since is awaited on the same plug if it is on
state_information_is_on ==
    /\ AwaitingCall("state_information", "is_on")
    /\ LET v == DeviceIsOn(Cur.context)
           log == Complete(calls, "ok", v)
       IN  IF v
           THEN /\ calls' = IssueCall(log, idx, "get_on_since")
                /\ UNCHANGED <<idx, pc, result>>
           ELSE NextPlug(log, "is_on", Value(acc))
    /\ UNCHANGED <<device, strip, op, acc, cmds>>

\* plug.get_on_since() answered: the entry is stored and the loop moves on
state_information_on_since ==
    /\ AwaitingCall("state_information", "get_on_since")
    /\ \E t \in 1..MaxTime :
        LET state == DictSet(acc, OnSinceKey(Cur), t)
        IN  /\ acc' = state
            /\ NextPlug(Complete(calls, "ok", t), "is_on", Value(state))
    /\ UNCHANGED <<device, strip, op, cmds>>

\* ---- the specifications -------------------------------------------------
\* an inventory with m children, identified 1..m in discovery order
Inventory(m) == [has_children |-> TRUE, children |-> [i \in 1..m |-> i]]

NoChildren == [has_children |-> FALSE, children |-> <<>>]

Fresh ==
    /\ phase = "new"
    /\ plugs = <<>>
    /\ num_children = 0
    /\ op = "none"
    /\ pc = "idle"
    /\ idx = 0
    /\ acc = <<>>
    /\ calls = <<>>
    /\ cmds = <<>>
    /\ result = NoResult

Init ==
    /\ sysinfo \in {Inventory(m) : m \in 0..MaxOutlets} \cup {NoChildren}
    /\ relay \in [1..Len(sysinfo.children) -> BOOLEAN]
    /\ Fresh

Next ==
    \/ InitQuery
    \/ InitQueryFails
    \/ InitQueryReturns
    \/ plug_call_raises
    \/ query_helper_raises
    \/ is_on
    \/ is_on_resume
    \/ turn_on
    \/ turn_on_resume
    \/ turn_off
    \/ turn_off_resume
    \/ get_on_since
    \/ get_on_since_resume
    \/ state_information
    \/ state_information_is_on
    \/ state_information_on_since
    \/ current_consumption
    \/ current_consumption_resume
    \/ icon
    \/ set_alias
    \/ set_alias_resume
    \/ get_emeter_daily
    \/ get_emeter_daily_resume
    \/ get_emeter_monthly
    \/ get_emeter_monthly_resume
    \/ erase_emeter_stats
    \/ erase_emeter_stats_resume

Spec == Init /\ [][Next]_vars

\* SpecInventory: any inventory (identifiers may repeat), and the operations
\* that do not route by identifier
InitInventory ==
    /\ sysinfo \in {NoChildren} \cup
          UNION {{[has_children |-> TRUE, children |-> c] :
                    c \in [1..m -> 1..MaxId]} : m \in 0..MaxOutlets}
    /\ relay = [i \in 1..Len(sysinfo.children) |-> FALSE]
    /\ Fresh

NextInventory ==
    \/ InitQuery
    \/ InitQueryFails
    \/ InitQueryReturns
    \/ plug_call_raises
    \/ query_helper_raises
    \/ turn_on
    \/ turn_on_resume
    \/ turn_off
    \/ turn_off_resume
    \/ icon
    \/ erase_emeter_stats
    \/ erase_emeter_stats_resume

SpecInventory == InitInventory /\ [][NextInventory]_vars


\* ---- properties ---------------------------------------------------------
Done(name) == phase = "ready" /\ op = name /\ pc = "done"

Returned == result.kind = "value"

Raised == result.kind = "error"

\* the positions in self.plugs of the outlets that are on
OnPlugs == {i \in 1..Len(plugs) : DeviceIsOn(plugs[i].context)}

\* C1: when is_on has returned, it returned TRUE if and only if at least one
\* outlet is on; with no outlet it returned FALSE.
C1_IsOnIffAnyOutletOn ==
    (Done("is_on") /\ Returned) =>
        /\ result.val = (OnPlugs # {})
        /\ (plugs = <<>> => result.val = FALSE)

\* is_on returned TRUE on a strip whose only outlet that is on is the last
C1_Witness ==
    /\ Done("is_on")
    /\ Len(plugs) = 3
    /\ OnPlugs = {3}
    /\ result = Value(TRUE)

\* the outlets whose erase call has returned without failure
Erased ==
    {calls[j].plug : j \in {x \in 1..Len(calls) : calls[x].st = "ok"}}

\* C2: erase_emeter_stats calls erase on the plugs one by one in discovery
\* order, each once; when it returns every outlet is erased, and when the
\* call on outlet k fails exactly the outlets before k are erased.
C2_EraseInOrderNoRollback ==
    (phase = "ready" /\ op = "erase_emeter_stats") =>
        /\ \A j \in 1..Len(calls) :
              calls[j].plug = j /\ calls[j].name = "erase_emeter_stats"
        /\ (pc = "done" /\ Returned) =>
              (Len(calls) = Len(plugs) /\ Erased = 1..Len(plugs))
        /\ (pc = "done" /\ Raised) =>
              /\ calls[Len(calls)].st = "err"
              /\ Erased = 1..(Len(calls) - 1)

\* erase failed on the second of three outlets
C2_Witness ==
    /\ Done("erase_emeter_stats")
    /\ Len(plugs) = 3
    /\ Raised
    /\ Len(calls) = 2
    /\ Erased = {1}

FanOutOps ==
    {"is_on", "get_on_since", "current_consumption", "get_emeter_daily",
     "get_emeter_monthly", "erase_emeter_stats", "state_information"}

\* C3: in a fan-out operation a per-outlet call that failed is the last call
\* the operation issued, and the operation has ended with that very failure.
C3_FailurePropagatesAndAborts ==
    (phase = "ready" /\ op \in FanOutOps) =>
        \A j \in 1..Len(calls) :
            calls[j].st = "err" =>
                /\ j = Len(calls)
                /\ pc = "done"
                /\ Raised
                /\ result.val = calls[j].val

\* state_information: on-since failed on the first of three outlets, the
\* other two were never called
C3_Witness ==
    /\ Done("state_information")
    /\ Len(plugs) = 3
    /\ Len(calls) = 2
    /\ calls[2].name = "get_on_since"
    /\ calls[2].st = "err"
    /\ result = Error("ConnectionError")

\* C4: turn_on and turn_off have issued one set_relay_state request to the
\* whole device, with state 1 and 0, and no call to any plug.
C4_OneWholeDeviceCommand ==
    /\ (phase = "ready" /\ op = "turn_on") =>
          /\ cmds = <<[cmd |-> "set_relay_state", arg |-> 1]>>
          /\ calls = <<>>
    /\ (phase = "ready" /\ op = "turn_off") =>
          /\ cmds = <<[cmd |-> "set_relay_state", arg |-> 0]>>
          /\ calls = <<>>

\* turn_off returned on a strip of three outlets
C4_Witness ==
    /\ Done("turn_off")
    /\ Len(plugs) = 3
    /\ result = Value(None)
    /\ Len(cmds) = 1

\* every call the operation issued has returned a value
AllAnswered == \A j \in 1..Len(calls) : calls[j].st = "ok"

\* the key-wise sum of the maps the calls returned
KeyWiseSum ==
    LET RECURSIVE Total(_, _)
        Total(k, n) ==
            IF n = 0 THEN 0
            ELSE Total(k, n - 1) +
                 (IF k \in DOMAIN calls[n].val THEN calls[n].val[k] ELSE 0)
    IN  [k \in UNION {DOMAIN calls[j].val : j \in 1..Len(calls)} |->
            Total(k, Len(calls))]

\* C5: when no per-outlet call of get_emeter_monthly failed, it returns the
\* key-wise sum of all outlets' monthly maps.
C5_MonthlyIsKeyWiseSum ==
    (Done("get_emeter_monthly") /\ AllAnswered) =>
        /\ Returned
        /\ Len(calls) = Len(plugs)
        /\ result.val = KeyWiseSum

\* C6: when get_emeter_daily returns, every outlet was asked and the result
\* is the key-wise sum of the outlets' daily maps.
C6_DailyIsKeyWiseSum ==
    (Done("get_emeter_daily") /\ Returned) =>
        /\ Len(calls) = Len(plugs)
        /\ AllAnswered
        /\ result.val = KeyWiseSum

\* three outlets, with a day that two outlets carry and a day one carries
C6_Witness ==
    /\ Done("get_emeter_daily")
    /\ Returned
    /\ Len(plugs) = 3
    /\ DOMAIN calls[1].val = {1}
    /\ DOMAIN calls[2].val = {1, 2}
    /\ DOMAIN calls[3].val = {}
    /\ result.val[1] = calls[1].val[1] + calls[2].val[1]
    /\ result.val[2] = calls[2].val[2]

\* C7: when current_consumption returns, the result is the sum of the
\* values the outlets returned; with no outlet it is 0.
C7_ConsumptionIsSum ==
    (Done("current_consumption") /\ Returned) =>
        LET RECURSIVE Total(_)
            Total(n) == IF n = 0 THEN 0 ELSE Total(n - 1) + calls[n].val
        IN  /\ Len(calls) = Len(plugs)
            /\ AllAnswered
            /\ result.val = Total(Len(calls))
            /\ (plugs = <<>> => result.val = 0)

\* three outlets drawing 2, 1 and 2
C7_Witness ==
    /\ Done("current_consumption")
    /\ Returned
    /\ Len(plugs) = 3
    /\ calls[1].val = 2 /\ calls[2].val = 1 /\ calls[3].val = 2
    /\ result = Value(5)

\* C8: with at least one outlet, when get_on_since returns, the result is
\* the largest of the timestamps the outlets returned.
C8_OnSinceIsMaximum ==
    (Done("get_on_since") /\ Returned /\ Len(plugs) >= 1) =>
        /\ Len(calls) = Len(plugs)
        /\ AllAnswered
        /\ \A j \in 1..Len(calls) : calls[j].val <= result.val
        /\ \E j \in 1..Len(calls) : calls[j].val = result.val

\* three outlets, the largest timestamp in the middle
C8_Witness ==
    /\ Done("get_on_since")
    /\ Returned
    /\ Len(plugs) = 3
    /\ calls[1].val = 1 /\ calls[2].val = 3 /\ calls[3].val = 2
    /\ result = Value(3)

\* the n-th outlet that is on, in discovery order
NthOn(n) ==
    CHOOSE i \in OnPlugs : Cardinality({x \in OnPlugs : x <= i}) = n

\* the timestamp the get_on_since call on plug i returned
OnSinceOf(i) ==
    LET j == CHOOSE x \in 1..Len(calls) :
                 calls[x].plug = i /\ calls[x].name = "get_on_since"
    IN  calls[j].val

\* C9: the map state_information returns has, after the LED entry, one
\* "on since" entry per outlet that is on and none for an outlet that is
\* off, in discovery order.
C9_OneEntryPerOnOutlet ==
    (Done("state_information") /\ Returned) =>
        /\ Len(result.val) = 1 + Cardinality(OnPlugs)
        /\ result.val[1].key = LedKey
        /\ \A n \in 1..Cardinality(OnPlugs) :
              /\ result.val[1 + n].key = OnSinceKey(plugs[NthOn(n)])
              /\ result.val[1 + n].val = OnSinceOf(NthOn(n))

\* outlets A and C on, B off: two entries, A's then C's
C9_Witness ==
    /\ Done("state_information")
    /\ Returned
    /\ Len(plugs) = 3
    /\ OnPlugs = {1, 3}
    /\ Len(result.val) = 3
    /\ result.val[2].key = OnSinceKey(plugs[1])
    /\ result.val[3].key = OnSinceKey(plugs[3])
    /\ result.val[2].val < result.val[3].val

\* C10: a constructed strip has one plug per child of the inventory, the
\* i-th plug bound to the identifier of the i-th child, and num_children is
\* the number of children.
C10_OnePlugPerChildInOrder ==
    phase = "ready" =>
        /\ Len(plugs) = Len(sysinfo.children)
        /\ num_children = Len(sysinfo.children)
        /\ \A i \in 1..Len(sysinfo.children) :
              plugs[i].context = sysinfo.children[i]

\* the inventory lists the identifiers 2, 1, 2
C10_Witness ==
    /\ phase = "ready"
    /\ op = "__init__"
    /\ sysinfo.children = <<2, 1, 2>>
    /\ Len(plugs) = 3
    /\ plugs[1].context = 2 /\ plugs[2].context = 1 /\ plugs[3].context = 2

\* C11: once the strip is constructed, no step changes self.plugs or
\* num_children, the strip stays constructed, and the list has num_children
\* elements.
C11_OutletsFixedAfterConstruction ==
    [][phase = "ready" =>
          /\ phase' = "ready"
          /\ plugs' = plugs
          /\ num_children' = num_children
          /\ Len(plugs') = num_children']_vars

\* an operation has failed half way on a strip of three outlets, which
\* still holds its three plugs in discovery order
C11_Witness ==
    /\ Done("erase_emeter_stats")
    /\ Raised
    /\ Len(calls) = 2
    /\ num_children = 3
    /\ plugs = <<[context |-> 1], [context |-> 2], [context |-> 3]>>

\* C12: on a strip without outlets get_on_since ends with the failure of
\* the maximum over an empty list, not with a value, and has called no plug.
C12_OnSinceFailsWithoutOutlets ==
    (Done("get_on_since") /\ plugs = <<>>) =>
        /\ Raised
        /\ result.val = "ValueError"
        /\ calls = <<>>
        /\ cmds = <<>>

\* get_on_since has ended on a strip whose inventory listed no child
C12_Witness ==
    /\ Done("get_on_since")
    /\ sysinfo.has_children
    /\ num_children = 0
    /\ plugs = <<>>
    /\ result = Error("ValueError")

\* the operation's calls went to the plugs 1..n, one each, in that order
CalledInOrder(n) ==
    /\ Len(calls) = n
    /\ \A j \in 1..n : calls[j].plug = j /\ calls[j].name = op

\* the first outlet that is on, or the last outlet when none is
FirstOnOrLast ==
    IF OnPlugs = {} THEN Len(plugs)
    ELSE CHOOSE i \in OnPlugs : \A x \in OnPlugs : i <= x

\* C13 as stated: each of the six fan-out operations, when it returns its
\* result, has called every one of the N outlets exactly once.
C13_EveryOutletCalledOnce ==
    (phase = "ready" /\ pc = "done" /\ Returned /\
     op \in {"is_on", "get_on_since", "current_consumption",
             "get_emeter_daily", "get_emeter_monthly",
             "erase_emeter_stats"}) =>
        CalledInOrder(Len(plugs))

\* C13 amended: get_on_since, current_consumption, get_emeter_daily,
\* get_emeter_monthly and erase_emeter_stats, when they return, have called
\* every outlet exactly once; is_on has called, once each, the outlets up to
\* and including the first that is on, and every outlet when none is on.
C13_EveryOutletCalledOnceButIsOn ==
    /\ (phase = "ready" /\ pc = "done" /\ Returned /\
        op \in {"get_on_since", "current_consumption", "get_emeter_daily",
                "get_emeter_monthly", "erase_emeter_stats"}) =>
           CalledInOrder(Len(plugs))
    /\ (Done("is_on") /\ Returned) => CalledInOrder(FirstOnOrLast)

\* is_on returned after two calls on a strip of three outlets, the second
\* and third of which are on
C13_Witness ==
    /\ Done("is_on")
    /\ Returned
    /\ Len(plugs) = 3
    /\ OnPlugs = {2, 3}
    /\ Len(calls) = 2

\* C14: in a fan-out operation only the call issued last can be in flight,
\* the first call goes to the first outlet, and each further call goes to
\* the next outlet (in state_information, to the same outlet when it is the
\* on-since call that follows the outlet's is-on call).
C14_OneCallAtATimeInOrder ==
    (phase = "ready" /\ op \in FanOutOps) =>
        /\ \A j \in 1..(Len(calls) - 1) : calls[j].st # "pending"
        /\ (calls # <<>> => calls[1].plug = 1)
        /\ \A j \in 1..(Len(calls) - 1) :
              \/ calls[j + 1].plug = calls[j].plug + 1
              \/ /\ op = "state_information"
                 /\ calls[j + 1].plug = calls[j].plug
                 /\ calls[j].name = "is_on"
                 /\ calls[j + 1].name = "get_on_since"
        /\ (pc = "await") = (calls # <<>> /\ calls[Len(calls)].st = "pending")

\* the call to the third outlet is in flight, the first two have returned
C14_Witness ==
    /\ phase = "ready"
    /\ op = "get_emeter_daily"
    /\ pc = "await"
    /\ Len(calls) = 3
    /\ calls[1].st = "ok"
    /\ calls[2].st = "ok"
    /\ calls[3].st = "pending"
    /\ calls[3].plug = 3

\* C15: a construction that failed has raised the failure of the inventory
\* query, or the missing-key failure when the response has no children
\* list; it has created no plug and no operation runs on it; a response
\* without a children list never gives a constructed strip.
C15_FailedConstructionLeavesNothing ==
    /\ phase = "failed" =>
          /\ op = "__init__"
          /\ pc = "done"
          /\ Raised
          /\ \/ result.val \in FailureKinds
             \/ result.val = "KeyError" /\ ~sysinfo.has_children
          /\ plugs = <<>>
          /\ num_children = 0
          /\ calls = <<>>
    /\ phase = "ready" => sysinfo.has_children

\* the response had no children list and construction has failed
C15_Witness ==
    /\ phase = "failed"
    /\ ~sysinfo.has_children
    /\ result = Error("KeyError")
    /\ plugs = <<>>

\* the loop of is_on run over a list of per-outlet answers
RECURSIVE IsOnFrom(_, _)
IsOnFrom(list, i) ==
    IF i > Len(list) THEN FALSE
    ELSE IF list[i] THEN TRUE
    ELSE IsOnFrom(list, i + 1)

\* the loop of get_emeter_daily run over a list of per-outlet maps
RECURSIVE DailyFrom(_, _, _)
DailyFrom(list, i, emeter_daily) ==
    IF i > Len(list) THEN emeter_daily
    ELSE DailyFrom(list, i + 1,
                   AddItems(emeter_daily, list[i], DOMAIN list[i]))

\* the list l taken in the order p
InOrder(l, p) == [j \in 1..Len(l) |-> l[p[j]]]

Orders == Permutations(1..Len(plugs))

\* what each outlet answered, by discovery position
Answers == [j \in 1..Len(calls) |-> calls[j].val]

RelayStates == [j \in 1..Len(plugs) |-> DeviceIsOn(plugs[j].context)]

C17_OneInventoryQuery ==
    (op = "__init__" /\ phase # "new") =>
        /\ cmds = <<[cmd |-> "get_sysinfo", arg |-> None]>>
        /\ calls = <<>>

\* the inventory query failed and construction ended without a second query
C17_Witness ==
    /\ op = "__init__"
    /\ phase = "failed"
    /\ result = Error("ConnectionError")
    /\ Len(cmds) = 1

\* C18: icon ends at once with the pair of placeholder strings, and has
\* sent no request to the device and called no plug.
C18_IconIsFixed ==
    (phase = "ready" /\ op = "icon") =>
        /\ pc = "done"
        /\ Returned
        /\ result.val.icon = "SMARTSTRIP-DUMMY"
        /\ result.val.hash = "SMARTSTRIP-DUMMY"
        /\ cmds = <<>>
        /\ calls = <<>>

\* icon has returned on a strip of three outlets, two of them on
C18_Witness ==
    /\ Done("icon")
    /\ Len(plugs) = 3
    /\ OnPlugs = {1, 3}
    /\ Returned

\* C19: state_information asks the first outlet is_on first; after an
\* is_on that answered true it asks the same outlet get_on_since and nothing
\* else; after an is_on that answered false, or after a get_on_since, it
\* asks the next outlet is_on; when it returns, the last outlet was asked.
C19_IsOnThenOnSincePerOutlet ==
    (phase = "ready" /\ op = "state_information") =>
        /\ \A j \in 1..Len(calls) :
              /\ calls[j].name \in {"is_on", "get_on_since"}
              /\ calls[j].name = "is_on" =>
                    IF j = 1 THEN calls[j].plug = 1
                    ELSE /\ calls[j].plug = calls[j - 1].plug + 1
                         /\ calls[j - 1].st = "ok"
                         /\ (calls[j - 1].name = "is_on" =>
                                calls[j - 1].val = FALSE)
              /\ calls[j].name = "get_on_since" =>
                    /\ j > 1
                    /\ calls[j - 1].name = "is_on"
                    /\ calls[j - 1].st = "ok"
                    /\ calls[j - 1].val = TRUE
                    /\ calls[j - 1].plug = calls[j].plug
        /\ (pc = "done" /\ Returned) =>
              /\ (calls = <<>>) = (plugs = <<>>)
              /\ calls # <<>> =>
                    /\ calls[Len(calls)].plug = Len(plugs)
                    /\ calls[Len(calls)].st = "ok"
                    /\ (calls[Len(calls)].name = "is_on" =>
                           calls[Len(calls)].val = FALSE)

\* three outlets, only the second on: is_on, is_on, get_on_since, is_on
C19_Witness ==
    /\ Done("state_information")
    /\ Returned
    /\ Len(plugs) = 3
    /\ OnPlugs = {2}
    /\ Len(calls) = 4
    /\ calls[3].name = "get_on_since"
    /\ calls[3].plug = 2
    /\ calls[4].name = "is_on"

QueryOps ==
    {"is_on", "get_on_since", "current_consumption", "get_emeter_daily",
     "get_emeter_monthly", "state_information", "icon"}

\* the per-outlet calls that only read
ReadCalls ==
    {"is_on", "get_on_since", "current_consumption", "get_emeter_daily",
     "get_emeter_monthly"}

\* C20: no step of a query operation, from its start to its return or
\* failure, changes a relay, sends a whole-device request or issues a
\* per-outlet call other than the five reading calls.
C20_QueriesChangeNothing ==
    [][(phase' = "ready" /\ op' \in QueryOps) =>
          /\ relay' = relay
          /\ sysinfo' = sysinfo
          /\ cmds' = <<>>
          /\ \A j \in 1..Len(calls') : calls'[j].name \in ReadCalls]_vars

\* a query has failed half way on a strip with two outlets on
C20_Witness ==
    /\ Done("get_emeter_daily")
    /\ Raised
    /\ Len(plugs) = 3
    /\ Len(calls) = 2
    /\ relay = <<TRUE, FALSE, TRUE>>

====
